---- MODULE Spec2Model ----
(***************************************************************************)
(* Model of src/main.py: a Flask application whose before_first_request    *)
(* hook builds one SQLAlchemy engine (QueuePool) from four secrets, and    *)
(* whose single route GET / checks a connection out of the pool, runs one  *)
(* query and returns the rows as JSON.                                     *)
(*                                                                         *)
(* Each request is a thread with a program counter.  The framework's       *)
(* first-request trigger (flag + lock, double-checked) and the pool's      *)
(* checkout / return (queue of idle connections + overflow counter) are    *)
(* modelled step by step as the libraries main.py calls execute them.      *)
(***************************************************************************)
EXTENDS Integers, Sequences, FiniteSets

\* ---------------------------------------------------------------- bounds
MaxRequests == 3
MaxRows == 2
LateRequests == 2
LiveRequests == 1

\* ------------------------------------------------------ program constants
pool_size == 5
max_overflow == 2
pool_timeout == 30
NumSecrets == 4

\* Requests inside get_pets, each holding a connection, in the initial state
\* of the pool-contention specification.
BusyRequests == pool_size + max_overflow

\* rows (id, name) the table pets may hold
Rows == {<<1, "Rex">>, <<2, "Tom">>}

RECURSIVE SeqsUpTo(_, _)
SeqsUpTo(S, n) ==
    IF n = 0 THEN {<<>>}
    ELSE LET shorter == SeqsUpTo(S, n - 1)
         IN  shorter \cup {Append(s, x) : s \in {t \in shorter : Len(t) = n - 1}, x \in S}

Tables == SeqsUpTo(Rows, MaxRows)

VARIABLES
    reqs,               \* the requests of this run (thread ids, in arrival order)
    pc,                 \* per request: where its thread is
    got_first_request,  \* Flask's _got_first_request flag
    lock,               \* holder of Flask's _before_request_lock, 0 when free
    db,                 \* the global db: 0 while unbound, else the id of the engine
    built,              \* number of engines create_engine has returned so far
    engine_calls,       \* number of create_engine calls so far
    nsec,               \* per request: secrets its init_connection_engine call has read
    assigned,           \* number of assignments to the global db so far
    fetched,            \* number of access_secret_version calls so far
    ret,                \* per request: return value of init_connection_engine
    idle,               \* QueuePool: connections sitting in the queue
    overflow,           \* QueuePool: _overflow, starts at -pool_size
    conn,               \* per request: holds a checked-out connection
    waited,             \* per request: seconds spent blocked in the pool's get
    execs,              \* per request: number of conn.execute calls
    pets,               \* per request: the local list pets
    status,             \* per request: HTTP status of the response, 0 = none yet
    body,               \* per request: response body (JSON array)
    err,                \* per request: the exception that ended it, "" if none
    table               \* rows of the table pets, in the order the database returns them

vars == <<reqs, pc, got_first_request, lock, db, built, engine_calls, nsec,
          assigned, fetched, ret,
          idle, overflow, conn, waited, execs, pets, status, body, err, table>>

hookVars == <<got_first_request, lock, db, built, engine_calls, nsec,
              assigned, fetched, ret>>
poolVars == <<idle, overflow, conn, waited>>
respVars == <<status, body, err>>

\* ------------------------------------------------------------ pure parts

\* lines 90-91 with the rows prepended instead of appended
RECURSIVE BuildPetsReversed(_, _)
BuildPetsReversed(acc, rows) ==
    IF rows = <<>> THEN acc
    ELSE BuildPetsReversed(<<[id |-> Head(rows)[1], name |-> Head(rows)[2]]>> \o acc,
                           Tail(rows))

\* line 91: {"id": row[0], "name": row[1]}
PetOf(row) == [id |-> row[1], name |-> row[2]]

\* lines 86, 90-91: pets = []; for row in pets_result: pets.append(...)
RECURSIVE BuildPets(_, _)
BuildPets(acc, rows) ==
    IF rows = <<>> THEN acc
    ELSE BuildPets(Append(acc, PetOf(Head(rows))), Tail(rows))

\* line 94: jsonify(pets): a JSON array, one object per dict, an object being
\* the set of its key / value members.
JsonObject(d) == {<<k, d[k]>> : k \in DOMAIN d}
Jsonify(list) == [i \in 1..Len(list) |-> JsonObject(list[i])]

\* QueuePool.checkedout(): maxsize - qsize + overflow
CheckedOut == pool_size - idle + overflow

Holders == {r \in reqs : conn[r]}
\* get_pets invocations in progress: threads that have entered the handler
\* and not left it
InFlight == {r \in reqs : pc[r] \in {"wait", "execute"}}
\* requests that have arrived and have no response yet
Unanswered == {r \in reqs : pc[r] \notin {"none", "done"}}

\* the framework's answer to an exception escaping a handler or a hook
Fail(r, e) ==
    /\ pc' = [pc EXCEPT ![r] = "done"]
    /\ status' = [status EXCEPT ![r] = 500]
    /\ body' = [body EXCEPT ![r] = <<>>]
    /\ err' = [err EXCEPT ![r] = e]

\* Connection.close() at the end of the with block: QueuePool._do_return_conn
ReleaseConn(r) ==
    /\ conn' = [conn EXCEPT ![r] = FALSE]
    /\ IF idle < pool_size
         THEN idle' = idle + 1 /\ overflow' = overflow
         ELSE idle' = idle /\ overflow' = overflow - 1

\* --------------------------------------------------------------- actions

\* a request arrives (requests are numbered in arrival order) and its thread
\* enters try_trigger_before_first_request_functions: the unlocked look at the
\* flag
Arrive(r) ==
    /\ pc[r] = "none"
    /\ \A q \in reqs : q < r => pc[q] # "none"
    /\ pc' = [pc EXCEPT ![r] = IF got_first_request THEN "route" ELSE "lock"]
    /\ UNCHANGED <<reqs, hookVars, poolVars, execs, pets, respVars, table>>

\* the hook entered without mutual exclusion
LockEnterNoMutex(r) ==
    /\ pc[r] = "lock"
    /\ IF got_first_request
         THEN /\ pc' = [pc EXCEPT ![r] = "route"]
              /\ lock' = lock
         ELSE /\ pc' = [pc EXCEPT ![r] = "init"]
              /\ lock' = r
    /\ UNCHANGED <<reqs, engine_calls, nsec, got_first_request, db, built, assigned, fetched, ret,
                   poolVars, execs, pets, respVars, table>>

\* the flag raised on entering the lock, before the hook has run
LockEnterFlagFirst(r) ==
    /\ pc[r] = "lock"
    /\ lock = 0
    /\ IF got_first_request
         THEN /\ pc' = [pc EXCEPT ![r] = "route"]
              /\ lock' = lock
              /\ got_first_request' = got_first_request
         ELSE /\ pc' = [pc EXCEPT ![r] = "init"]
              /\ lock' = r
              /\ got_first_request' = TRUE
    /\ UNCHANGED <<reqs, engine_calls, nsec, db, built, assigned, fetched, ret,
                   poolVars, execs, pets, respVars, table>>

\* with self._before_request_lock: second look at the flag
LockEnter(r) ==
    /\ pc[r] = "lock"
    /\ lock = 0
    /\ IF got_first_request
         THEN /\ pc' = [pc EXCEPT ![r] = "route"]
              /\ lock' = lock
         ELSE /\ pc' = [pc EXCEPT ![r] = "init"]
              /\ lock' = r
    /\ UNCHANGED <<reqs, engine_calls, nsec, got_first_request, db, built, assigned, fetched, ret,
                   poolVars, execs, pets, respVars, table>>

\* an exception leaving init_connection_engine: it leaves create_connection
\* and the hook, the lock is released, the flag stays False, the request gets
\* the framework's 500
HookRaise(r, e) ==
    /\ lock' = 0
    /\ nsec' = [nsec EXCEPT ![r] = 0]
    /\ Fail(r, e)

\* line 30: SecretManagerServiceClient() raises, no secret accessed
ClientFail(r) ==
    /\ pc[r] = "init"
    /\ nsec[r] = 0
    /\ HookRaise(r, "ClientError")
    /\ UNCHANGED <<reqs, got_first_request, db, built, engine_calls, assigned,
                   fetched, ret, poolVars, execs, pets, table>>

\* lines 39-42: the next access_secret_version call returns
AccessSecret(r) ==
    /\ pc[r] = "init"
    /\ nsec[r] < NumSecrets
    /\ fetched' = fetched + 1
    /\ nsec' = [nsec EXCEPT ![r] = nsec[r] + 1]
    /\ UNCHANGED <<reqs, pc, got_first_request, lock, db, built, engine_calls,
                   assigned, ret, poolVars, execs, pets, respVars, table>>

\* a failed secret access answered with 200 and the empty list
AccessSecretFailSilent(r) ==
    /\ pc[r] = "init"
    /\ nsec[r] < NumSecrets
    /\ fetched' = fetched + 1
    /\ lock' = 0
    /\ nsec' = [nsec EXCEPT ![r] = 0]
    /\ pc' = [pc EXCEPT ![r] = "done"]
    /\ status' = [status EXCEPT ![r] = 200]
    /\ body' = [body EXCEPT ![r] = <<>>]
    /\ err' = [err EXCEPT ![r] = "SecretAccessError"]
    /\ UNCHANGED <<reqs, got_first_request, db, built, engine_calls, assigned,
                   ret, poolVars, execs, pets, table>>

\* lines 39-42: the next access_secret_version call raises
AccessSecretFail(r) ==
    /\ pc[r] = "init"
    /\ nsec[r] < NumSecrets
    /\ fetched' = fetched + 1
    /\ HookRaise(r, "SecretAccessError")
    /\ UNCHANGED <<reqs, got_first_request, db, built, engine_calls, assigned,
                   ret, poolVars, execs, pets, table>>

\* lines 44-48: a payload is not UTF-8 and decode raises, before create_engine
DecodeFail(r) ==
    /\ pc[r] = "init"
    /\ nsec[r] = NumSecrets
    /\ HookRaise(r, "DecodeError")
    /\ UNCHANGED <<reqs, got_first_request, db, built, engine_calls, assigned,
                   fetched, ret, poolVars, execs, pets, table>>

\* lines 58-68: sqlalchemy.engine.url.URL(...) raises while the argument of
\* create_engine is evaluated: create_engine is never called
UrlFail(r) ==
    /\ pc[r] = "init"
    /\ nsec[r] = NumSecrets
    /\ HookRaise(r, "PoolConstructionError")
    /\ UNCHANGED <<reqs, got_first_request, db, built, engine_calls, assigned,
                   fetched, ret, poolVars, execs, pets, table>>

\* lines 57-70: the URL is built, create_engine is called and raises
CreateEngineFail(r) ==
    /\ pc[r] = "init"
    /\ nsec[r] = NumSecrets
    /\ engine_calls' = engine_calls + 1
    /\ HookRaise(r, "PoolConstructionError")
    /\ UNCHANGED <<reqs, got_first_request, db, built, assigned,
                   fetched, ret, poolVars, execs, pets, table>>

\* lines 44-72: all four secrets read and decoded, the URL built:
\* create_engine is called and returns the pool
CreateEngine(r) ==
    /\ pc[r] = "init"
    /\ nsec[r] = NumSecrets
    /\ engine_calls' = engine_calls + 1
    /\ built' = built + 1
    /\ ret' = [ret EXCEPT ![r] = built + 1]
    /\ nsec' = [nsec EXCEPT ![r] = 0]
    /\ pc' = [pc EXCEPT ![r] = "assign"]
    /\ UNCHANGED <<reqs, got_first_request, lock, db, assigned, fetched,
                   poolVars, execs, pets, respVars, table>>

\* create_connection: global db; db = init_connection_engine()
AssignDb(r) ==
    /\ pc[r] = "assign"
    /\ db' = ret[r]
    /\ assigned' = assigned + 1
    /\ pc' = [pc EXCEPT ![r] = "flag"]
    /\ UNCHANGED <<reqs, engine_calls, nsec, got_first_request, lock, built, fetched, ret,
                   poolVars, execs, pets, respVars, table>>

\* the hook returned and the flag is left False
HookDoneNoFlag(r) ==
    /\ pc[r] = "flag"
    /\ got_first_request' = got_first_request
    /\ lock' = 0
    /\ pc' = [pc EXCEPT ![r] = "route"]
    /\ UNCHANGED <<reqs, engine_calls, nsec, db, built, assigned, fetched, ret,
                   poolVars, execs, pets, respVars, table>>

\* the hook returned: self._got_first_request = True, leave the lock
HookDone(r) ==
    /\ pc[r] = "flag"
    /\ got_first_request' = TRUE
    /\ lock' = 0
    /\ pc' = [pc EXCEPT ![r] = "route"]
    /\ UNCHANGED <<reqs, engine_calls, nsec, db, built, assigned, fetched, ret,
                   poolVars, execs, pets, respVars, table>>

\* db.connect() on a pool that opens overflow connections without limit
ConnectNoLimit(r) ==
    /\ pc[r] = "route"
    /\ pets' = [pets EXCEPT ![r] = <<>>]
    /\ IF db = 0
         THEN /\ Fail(r, "NameError")
              /\ UNCHANGED poolVars
         ELSE IF idle > 0
         THEN /\ idle' = idle - 1
              /\ conn' = [conn EXCEPT ![r] = TRUE]
              /\ pc' = [pc EXCEPT ![r] = "execute"]
              /\ UNCHANGED <<overflow, waited, respVars>>
         ELSE /\ overflow' = overflow + 1
              /\ conn' = [conn EXCEPT ![r] = TRUE]
              /\ pc' = [pc EXCEPT ![r] = "execute"]
              /\ UNCHANGED <<idle, waited, respVars>>
    /\ UNCHANGED <<reqs, hookVars, execs, table>>

\* get_pets up to db.connect(): QueuePool._do_get without blocking
Connect(r) ==
    /\ pc[r] = "route"
    /\ pets' = [pets EXCEPT ![r] = <<>>]
    /\ IF db = 0
         THEN /\ Fail(r, "NameError")
              /\ UNCHANGED poolVars
         ELSE IF idle > 0
         THEN /\ idle' = idle - 1
              /\ conn' = [conn EXCEPT ![r] = TRUE]
              /\ pc' = [pc EXCEPT ![r] = "execute"]
              /\ UNCHANGED <<overflow, waited, respVars>>
         ELSE IF overflow < max_overflow
         THEN /\ overflow' = overflow + 1
              /\ conn' = [conn EXCEPT ![r] = TRUE]
              /\ pc' = [pc EXCEPT ![r] = "execute"]
              /\ UNCHANGED <<idle, waited, respVars>>
         ELSE /\ pc' = [pc EXCEPT ![r] = "wait"]
              /\ waited' = [waited EXCEPT ![r] = 0]
              /\ UNCHANGED <<idle, overflow, conn, respVars>>
    /\ UNCHANGED <<reqs, hookVars, execs, table>>

\* a blocked get that no longer takes a returned connection once its
\* deadline has passed
WaitGetDeadlineFirst(r) ==
    /\ pc[r] = "wait"
    /\ idle > 0
    /\ waited[r] < pool_timeout
    /\ idle' = idle - 1
    /\ conn' = [conn EXCEPT ![r] = TRUE]
    /\ waited' = [waited EXCEPT ![r] = 0]
    /\ pc' = [pc EXCEPT ![r] = "execute"]
    /\ UNCHANGED <<reqs, hookVars, overflow, execs, pets, respVars, table>>

\* db.connect() has to open a new connection and the database cannot be
\* reached: _do_get takes the overflow slot back and the error leaves get_pets
ConnectFail(r) ==
    /\ pc[r] = "route"
    /\ db # 0
    /\ idle = 0
    /\ overflow < max_overflow
    /\ pets' = [pets EXCEPT ![r] = <<>>]
    /\ Fail(r, "OperationalError")
    /\ UNCHANGED <<reqs, hookVars, poolVars, execs, table>>

\* blocked in self._pool.get(wait, timeout): a connection came back
WaitGet(r) ==
    /\ pc[r] = "wait"
    /\ idle > 0
    /\ idle' = idle - 1
    /\ conn' = [conn EXCEPT ![r] = TRUE]
    /\ waited' = [waited EXCEPT ![r] = 0]
    /\ pc' = [pc EXCEPT ![r] = "execute"]
    /\ UNCHANGED <<reqs, hookVars, overflow, execs, pets, respVars, table>>

\* a checkout timeout that counts an overflow connection it never opened
WaitTimeoutCounted(r) ==
    /\ pc[r] = "wait"
    /\ idle = 0
    /\ waited[r] >= pool_timeout
    /\ overflow' = overflow + 1
    /\ Fail(r, "TimeoutError")
    /\ waited' = [waited EXCEPT ![r] = 0]
    /\ UNCHANGED <<reqs, hookVars, idle, conn, execs, pets, table>>

\* blocked in self._pool.get(wait, timeout): pool_timeout elapsed with the
\* queue still empty; _do_get raises TimeoutError when the overflow is used up
WaitTimeout(r) ==
    /\ pc[r] = "wait"
    /\ idle = 0
    /\ waited[r] >= pool_timeout
    /\ IF overflow >= max_overflow
         THEN /\ Fail(r, "TimeoutError")
              /\ UNCHANGED <<idle, overflow, conn>>
         ELSE /\ overflow' = overflow + 1
              /\ conn' = [conn EXCEPT ![r] = TRUE]
              /\ pc' = [pc EXCEPT ![r] = "execute"]
              /\ UNCHANGED <<idle, respVars>>
    /\ waited' = [waited EXCEPT ![r] = 0]
    /\ UNCHANGED <<reqs, hookVars, execs, pets, table>>

\* time passes for the requests blocked in the pool's get; the clock advances
\* in steps of pool_timeout seconds, and not past an expired wait
Tick ==
    /\ \E r \in reqs : pc[r] = "wait"
    /\ \A r \in reqs : pc[r] = "wait" => waited[r] < pool_timeout
    /\ waited' = [r \in reqs |-> IF pc[r] = "wait" THEN waited[r] + pool_timeout
                                                ELSE waited[r]]
    /\ UNCHANGED <<reqs, pc, hookVars, idle, overflow, conn, execs, pets, respVars, table>>

\* conn.execute(...).fetchall() succeeds; the loop fills pets; the with block
\* ends and returns the connection; return jsonify(pets), 200
GetPetsOk(r) ==
    /\ pc[r] = "execute"
    /\ execs' = [execs EXCEPT ![r] = execs[r] + 1]
    /\ pets' = [pets EXCEPT ![r] = BuildPets(pets[r], table)]
    /\ ReleaseConn(r)
    /\ status' = [status EXCEPT ![r] = 200]
    /\ body' = [body EXCEPT ![r] = Jsonify(pets'[r])]
    /\ pc' = [pc EXCEPT ![r] = "done"]
    /\ UNCHANGED <<reqs, hookVars, waited, err, table>>

\* a failed query whose connection is not returned (no with block)
GetPetsFailLeak(r) ==
    /\ pc[r] = "execute"
    /\ execs' = [execs EXCEPT ![r] = execs[r] + 1]
    /\ Fail(r, "QueryError")
    /\ UNCHANGED <<reqs, hookVars, poolVars, pets, table>>

\* a failed query retried once and then answered with the rows read so far
GetPetsFailRetry(r) ==
    /\ pc[r] = "execute"
    /\ execs' = [execs EXCEPT ![r] = execs[r] + 2]
    /\ ReleaseConn(r)
    /\ pc' = [pc EXCEPT ![r] = "done"]
    /\ status' = [status EXCEPT ![r] = 200]
    /\ body' = [body EXCEPT ![r] = Jsonify(pets[r])]
    /\ err' = [err EXCEPT ![r] = "QueryError"]
    /\ UNCHANGED <<reqs, hookVars, waited, pets, table>>

\* conn.execute(...) or fetchall() raises; the with block returns the
\* connection and the exception leaves get_pets
GetPetsFail(r) ==
    /\ pc[r] = "execute"
    /\ execs' = [execs EXCEPT ![r] = execs[r] + 1]
    /\ ReleaseConn(r)
    /\ Fail(r, "QueryError")
    /\ UNCHANGED <<reqs, hookVars, waited, pets, table>>

\* ---------------------------------------------------------- specification

\* process start: module imported, nothing fetched, no request yet
Init ==
    /\ reqs = 1..MaxRequests
    /\ pc = [r \in reqs |-> "none"]
    /\ got_first_request = FALSE
    /\ lock = 0
    /\ db = 0
    /\ built = 0
    /\ engine_calls = 0
    /\ nsec = [r \in reqs |-> 0]
    /\ assigned = 0
    /\ fetched = 0
    /\ ret = [r \in reqs |-> 0]
    /\ idle = 0
    /\ overflow = 0 - pool_size
    /\ conn = [r \in reqs |-> FALSE]
    /\ waited = [r \in reqs |-> 0]
    /\ execs = [r \in reqs |-> 0]
    /\ pets = [r \in reqs |-> <<>>]
    /\ status = [r \in reqs |-> 0]
    /\ body = [r \in reqs |-> <<>>]
    /\ err = [r \in reqs |-> ""]
    /\ table \in Tables

\* the steps a request takes from arrival to its response while the pool is
\* not exhausted
Next ==
    \/ \E r \in reqs : Arrive(r)
    \/ \E r \in reqs : LockEnter(r)
    \/ \E r \in reqs : ClientFail(r)
    \/ \E r \in reqs : AccessSecret(r)
    \/ \E r \in reqs : AccessSecretFail(r)
    \/ \E r \in reqs : DecodeFail(r)
    \/ \E r \in reqs : UrlFail(r)
    \/ \E r \in reqs : CreateEngineFail(r)
    \/ \E r \in reqs : CreateEngine(r)
    \/ \E r \in reqs : AssignDb(r)
    \/ \E r \in reqs : HookDone(r)
    \/ \E r \in reqs : Connect(r)
    \/ \E r \in reqs : ConnectFail(r)
    \/ \E r \in reqs : GetPetsOk(r)
    \/ \E r \in reqs : GetPetsFail(r)

Spec == Init /\ [][Next]_vars

\* Pool contention.  Request 1 ran the hook and built engine 1; requests
\* 1..BusyRequests are inside the with block of get_pets, each holding a
\* connection, so the pool is exhausted; LateRequests more requests are still
\* to arrive.  (No connection is opened from this state on: the queue has to
\* be drained by pool_size further requests first.)
FixedTable == << <<1, "Rex">>, <<2, "Tom">> >>

PoolInit(late) ==
    /\ reqs = 1..(BusyRequests + late)
    /\ pc = [r \in reqs |-> IF r <= BusyRequests THEN "execute" ELSE "none"]
    /\ got_first_request = TRUE
    /\ lock = 0
    /\ db = 1
    /\ built = 1
    /\ engine_calls = 1
    /\ nsec = [r \in reqs |-> 0]
    /\ assigned = 1
    /\ fetched = NumSecrets
    /\ ret = [r \in reqs |-> IF r = 1 THEN 1 ELSE 0]
    /\ idle = 0
    /\ overflow = BusyRequests - pool_size
    /\ conn = [r \in reqs |-> r <= BusyRequests]
    /\ waited = [r \in reqs |-> 0]
    /\ execs = [r \in reqs |-> 0]
    /\ pets = [r \in reqs |-> <<>>]
    /\ status = [r \in reqs |-> 0]
    /\ body = [r \in reqs |-> <<>>]
    /\ err = [r \in reqs |-> ""]
    /\ table = FixedTable

InitPool == PoolInit(LateRequests)

NextPool ==
    \/ \E r \in reqs : Arrive(r)
    \/ \E r \in reqs : Connect(r)
    \/ \E r \in reqs : WaitGet(r)
    \/ \E r \in reqs : WaitTimeout(r)
    \/ Tick
    \/ \E r \in reqs : GetPetsOk(r)
    \/ \E r \in reqs : GetPetsFail(r)

SpecPool == InitPool /\ [][NextPool]_vars

\* Pool contention with progress: while some thread can take a step, a step
\* is eventually taken (a started query finishes or fails, a blocked get is
\* woken or runs into its deadline), and time passes.  Arrivals are not forced.
InitLive == PoolInit(LiveRequests)

LateReqs == (BusyRequests + 1)..(BusyRequests + LiveRequests)

Step ==
    \E r \in reqs :
        \/ Connect(r)
        \/ WaitGet(r)
        \/ WaitTimeout(r)
        \/ GetPetsOk(r)
        \/ GetPetsFail(r)

LiveSpec ==
    /\ InitLive
    /\ [][NextPool]_vars
    /\ WF_vars(Tick)
    /\ WF_vars(Step)

\* ----------------------------------------------------------------- claims

\* C1: however the first-request hooks of simultaneous first requests
\* interleave, at most one engine is built in total and the global db is
\* assigned at most once; create_engine is not called again once it has
\* returned an engine.
C1_AtMostOnePool ==
    /\ built <= 1 /\ assigned <= 1
    /\ \A r \in reqs : (pc[r] = "init" /\ nsec[r] = NumSecrets) => built = 0

\* one request built and stored the pool while another, which had also seen
\* the flag False, is still queued on the hook's lock
C1_Witness ==
    \E r, q \in reqs :
        /\ r # q
        /\ ret[r] = 1 /\ db = 1 /\ assigned = 1
        /\ pc[q] = "lock"

\* C2: nothing is fetched or built before the first request arrives, and no
\* request is inside get_pets (at or past db.connect()) while the global db is
\* unbound; db, once bound, is the engine create_engine returned.
C2_InitBeforeServing ==
    /\ (\A r \in reqs : pc[r] = "none") =>
            (fetched = 0 /\ engine_calls = 0 /\ built = 0 /\ db = 0)
    /\ \A r \in reqs :
        /\ pc[r] \in {"route", "wait", "execute"} => (db # 0 /\ db = built)
        /\ execs[r] > 0 => db # 0
        /\ err[r] # "NameError"

\* a request that did not run the hook itself holds a connection of the pool
\* another request built
C2_Witness ==
    \E r, q \in reqs :
        /\ r # q
        /\ ret[r] = 1
        /\ ret[q] = 0 /\ conn[q] /\ pc[q] = "execute"

\* C3: a connection is held only by a request inside the with block; the
\* pool's count of checked-out connections is the number of such requests,
\* hence at most the number of in-flight handlers, and 0 once every request
\* has ended, whether with 200 or with an error.
C3_ConnectionsReturned ==
    /\ CheckedOut = Cardinality(Holders)
    /\ \A r \in reqs : conn[r] => pc[r] = "execute"
    /\ CheckedOut <= Cardinality(InFlight)
    /\ (Unanswered = {}) => CheckedOut = 0

\* every request has ended, one after a failed query and one with 200, and
\* the pool has all connections back
C3_Witness ==
    /\ \A r \in reqs : pc[r] = "done"
    /\ \E r, q \in reqs : err[r] = "QueryError" /\ status[q] = 200
    /\ idle > 0

\* C4: at most pool_size + max_overflow = 7 connections are checked out at
\* any time.
C4_PoolBound ==
    /\ CheckedOut <= pool_size + max_overflow
    /\ Cardinality(Holders) <= 7

\* seven connections are out and a further request is blocked in checkout
C4_Witness ==
    /\ CheckedOut = 7
    /\ \E r \in reqs : pc[r] = "wait"

\* C5: a step in which an access_secret_version call fails calls no
\* create_engine, builds no pool and leaves db unbound and the flag False, and
\* ends the request with 500 and no pet list; a request that failed this way
\* never shows 200.
C5_SecretFailureStep ==
    \A r \in reqs :
        (err[r] # "SecretAccessError" /\ err'[r] = "SecretAccessError") =>
            /\ pc[r] = "init" /\ pc'[r] = "done"
            /\ engine_calls' = engine_calls
            /\ built' = built /\ built = 0
            /\ db' = 0 /\ assigned' = 0
            /\ ~got_first_request'
            /\ status'[r] = 500 /\ body'[r] = <<>>

\* C5: the step property above holds of every step, and a request that
\* failed on a secret shows 500 in every state.
C5_SecretFailure ==
    /\ [][C5_SecretFailureStep]_vars
    /\ [](\A r \in reqs : err[r] = "SecretAccessError" => status[r] = 500)

\* the request that triggered initialisation failed on a secret: 500, no pool
C5_Witness ==
    \E r \in reqs :
        /\ err[r] = "SecretAccessError" /\ status[r] = 500
        /\ db = 0 /\ built = 0

\* C6: a checkout that times out ends its request with 500 and changes
\* neither the pool (idle queue, overflow count, who holds what) nor db nor
\* any other request; and with a timed-out request in the past, requests that
\* end without an exception still end with 200 and the pool's books stay
\* right.
C6_TimeoutStep ==
    \A r \in reqs :
        (pc[r] = "wait" /\ pc'[r] = "done") =>
            /\ status'[r] = 500 /\ body'[r] = <<>> /\ err'[r] = "TimeoutError"
            /\ CheckedOut = pool_size + max_overflow
            /\ idle' = idle /\ overflow' = overflow /\ conn' = conn
            /\ db' = db /\ built' = built
            /\ \A q \in reqs \ {r} : pc'[q] = pc[q] /\ status'[q] = status[q]

\* C6: the step property above holds of every step, and after a checkout
\* timeout the pool's count stays right and requests ending without an
\* exception end with 200.
C6_CheckoutTimeout ==
    /\ [][C6_TimeoutStep]_vars
    /\ []((\E r \in reqs : err[r] = "TimeoutError") =>
            /\ CheckedOut = Cardinality(Holders)
            /\ \A q \in reqs : (pc[q] = "done" /\ err[q] = "") => status[q] = 200)

\* a request timed out at checkout, and a request that arrived after it was
\* served with 200 from the same pool
C6_Witness ==
    \E r, q \in reqs :
        /\ err[r] = "TimeoutError" /\ status[r] = 500
        /\ q > r /\ status[q] = 200 /\ execs[q] = 1
        /\ db = 1

\* C7: a 200 response carries one object per row of the table, in the
\* table's order, the i-th object having exactly the members id = row_i[0] and
\* name = row_i[1]; for the empty table it is the empty array.
C7_RowsToJson ==
    \A r \in reqs :
        status[r] = 200 =>
            /\ Len(body[r]) = Len(table)
            /\ \A i \in 1..Len(table) :
                body[r][i] = {<<"id", table[i][1]>>, <<"name", table[i][2]>>}
            /\ (table = <<>> => body[r] = <<>>)

\* a 200 response for a table of two different rows
C7_Witness ==
    \E r \in reqs :
        /\ status[r] = 200
        /\ Len(table) = 2 /\ table[1] # table[2]

\* C8: a request whose query failed ran conn.execute exactly once, ended with
\* 500 and carries no pet data; no request runs the query more than once.
C8_QueryFailure ==
    \A r \in reqs :
        /\ execs[r] <= 1
        /\ err[r] = "QueryError" =>
            /\ execs[r] = 1
            /\ pc[r] = "done" /\ status[r] = 500 /\ body[r] = <<>>

\* a query failed on a table that has rows
C8_Witness ==
    \E r \in reqs : err[r] = "QueryError" /\ status[r] = 500 /\ Len(table) > 0

\* C9: once db is bound, no step rebinds it, builds another engine or
\* fetches a secret again.
C9_PoolStableStep ==
    db # 0 => /\ db' = db /\ built' = built /\ assigned' = assigned
              /\ engine_calls' = engine_calls
              /\ fetched' = fetched

\* C9: the step property above holds of every step.
C9_PoolStable == [][C9_PoolStableStep]_vars

\* with the pool in place one request was served and another failed in its
\* query, and the secrets were fetched once
C9_Witness ==
    /\ db = 1 /\ fetched = NumSecrets
    /\ \E r, q \in reqs : status[r] = 200 /\ err[q] = "QueryError"

\* C10: no request stays blocked at pool checkout for ever (it leaves the
\* wait with a connection or with a checkout timeout), and every request that
\* arrived eventually has its response: again and again no arrived request
\* is unanswered, and every ended request shows 200 or 500.
C10_NoEndlessWait ==
    /\ \A r \in LateReqs : []<>(pc[r] # "wait")
    /\ []<>(Unanswered = {} /\ \A r \in reqs : pc[r] = "done" => status[r] \in {200, 500})

\* a request that was blocked at checkout has its response, a timeout error
C10_Witness ==
    \E r \in reqs :
        /\ r > BusyRequests
        /\ pc[r] = "done" /\ err[r] = "TimeoutError"
        /\ \A q \in reqs : pc[q] = "done"

====
